---- MODULE Spec2Model ----
(***************************************************************************)
(* A model of the gateway's reconciliation kernel (gateway/src/main.rs):   *)
(* the EndState stream driver built on futures::stream::try_unfold, the    *)
(* IntoEndState conversion, the Error taxonomy with its HTTP mapping, and  *)
(* the composition root.  The Worker and the GatewayService live in        *)
(* modules that are declared (pub mod worker; pub mod service;) but whose  *)
(* text is not part of the source tree at hand; they are modelled from the *)
(* written specification and marked as such.                               *)
(***************************************************************************)
EXTENDS Integers, Sequences, FiniteSets, TLC

(***************************************************************************)
(* Bounds of the model.                                                    *)
(***************************************************************************)
\* the number of polls a consumer issues on one stream
MaxSteps == 5
\* the number of times the process is stopped and started again
MaxRestarts == 1
\* the number of times Service::update fails
MaxCommitFailures == 1
\* the length up to which every string over the alphabet is tried
MaxShort == 3

(***************************************************************************)
(* Option and Result values.                                               *)
(***************************************************************************)
None == [tag |-> "None"]
Some(v) == [tag |-> "Some", val |-> v]
Ok(v) == [tag |-> "Ok", val |-> v]
Err(e) == [tag |-> "Err", val |-> e]
\* a stream that no poll has returned from yet
NoPoll == [tag |-> "NoPoll"]

(***************************************************************************)
(* The units of work and the values of an EndState.                        *)
(***************************************************************************)
Items == {"p1", "p2"}
\* the streams the test harness (assert_matches) drives directly
TestItems == {"p1"}
Ctxs == {"c1", "c2"}
\* the closed sum type of a lifecycle: two ongoing variants, a completed or
\* monitored one, and a declared failure
States == {"A", "B", "Done", "Failed"}
ErrVariants == {"Failed"}

VARIABLES
    stream,     \* per unit: the TryUnfold object and the consumer's pending pull
    hist,       \* per unit: what the stream has done so far (history)
    world,      \* the external resource: "ok" or "fail"
    failDone,   \* per unit: the steps completed when the resource failed
    mainPc,     \* where main stands
    sender,     \* whether the GatewayService holds the Worker's sender
    tasks,      \* the tasks main has spawned
    queue,      \* the Worker's queue of work
    drv,        \* per unit: the driver the Worker spawned for it
    store,      \* per unit: the snapshot the persistence holds
    active,     \* per unit: the number of driver tasks running for it
    ghost,      \* history of the commits, the submissions and the restarts
    errs,       \* two Error values under construction
    resps,      \* the responses they were turned into
    conv,       \* a Result and the EndState it was converted into
    names       \* a string and what the name types made of it

streamVars == <<stream, hist, world, failDone>>
workerVars == <<mainPc, sender, tasks, queue, drv, store, active, ghost>>
pureVars == <<errs, resps, conv>>
nameVars == <<names>>
vars == <<streamVars, workerVars, pureVars, nameVars>>

\* EndState::is_done
IsDone(s) == s = "Done"

\* EndState::into_result: the declared failure variants are the Err side
IntoResult(s) == IF s \in ErrVariants THEN Err(s) ELSE Ok(s)

\* State::next for an EndState: Error = Infallible and Next = Self, so a call
\* that returns returns some value of the type
NextResults(s, ctx) == States

\* the lifecycle of the end-to-end scenario: A -> B -> Done -> Done ..., and the
\* declared failure once the external resource reports one
ScenarioNext(s, w) ==
    IF w = "fail" THEN "Failed"
    ELSE CASE s = "A" -> "B"
           [] s = "B" -> "Done"
           [] s = "Done" -> "Done"
           [] s = "Failed" -> "Failed"

\* a clone that does not copy: the item is a fresh default state
Clone_Default(s) == "A"

\* Clone::clone of a state
Clone(s) == s

\* a driver that does not split off the declared failures: every state is
\* yielded and fed back
UnfoldClosure_NoSplit(n, ctx) ==
    Ok(Some([item |-> Clone(n), seed |-> [state |-> n, ctx |-> ctx]]))

\* a driver that asks for a new Context for the following step
UnfoldClosure_FreshCtx(n, ctx) ==
    LET r == IntoResult(n) IN
    IF r.tag = "Ok"
    THEN Ok(Some([item |-> Clone(r.val), seed |-> [state |-> r.val, ctx |-> "c2"]]))
    ELSE Err(r.val)

\* the closure given to try_unfold, from the value next returned:
\* .unwrap().into_result().map(|state| Some((state.clone(), (state, ctx))))
UnfoldClosure(n, ctx) ==
    LET r == IntoResult(n) IN
    IF r.tag = "Ok"
    THEN Ok(Some([item |-> Clone(r.val), seed |-> [state |-> r.val, ctx |-> ctx]]))
    ELSE Err(r.val)

\* a driver that treats a done state as the end of the work: the item is
\* yielded and no seed is kept
TryUnfoldStep_StopsWhenDone(step) ==
    IF step.tag = "Ok"
    THEN IF step.val.tag = "Some"
         THEN [state |-> IF IsDone(step.val.val.item) THEN None
                         ELSE Some(step.val.val.seed),
               fut |-> None,
               ret |-> Some(Ok(step.val.val.item))]
         ELSE [state |-> None, fut |-> None, ret |-> None]
    ELSE [state |-> None, fut |-> None, ret |-> Some(Err(step.val))]

\* a driver that ends on the declared failure without yielding it
TryUnfoldStep_SilentEnd(step) ==
    IF step.tag = "Ok"
    THEN IF step.val.tag = "Some"
         THEN [state |-> Some(step.val.val.seed), fut |-> None,
               ret |-> Some(Ok(step.val.val.item))]
         ELSE [state |-> None, fut |-> None, ret |-> None]
    ELSE [state |-> None, fut |-> None, ret |-> None]

\* a driver that starts the following step as soon as it has yielded an item,
\* without waiting for the consumer to pull
TryUnfoldStep_Prefetch(step) ==
    IF step.tag = "Ok"
    THEN IF step.val.tag = "Some"
         THEN [state |-> None, fut |-> Some(step.val.val.seed),
               ret |-> Some(Ok(step.val.val.item))]
         ELSE [state |-> None, fut |-> None, ret |-> None]
    ELSE [state |-> None, fut |-> None, ret |-> Some(Err(step.val))]

\* TryUnfold::poll_next once the closure's future is ready
\* (fut.set(None), then the match on the step)
TryUnfoldStep(step) ==
    IF step.tag = "Ok"
    THEN IF step.val.tag = "Some"
         THEN [state |-> Some(step.val.val.seed), fut |-> None,
               ret |-> Some(Ok(step.val.val.item))]
         ELSE [state |-> None, fut |-> None, ret |-> None]
    ELSE [state |-> None, fut |-> None, ret |-> Some(Err(step.val))]

\* a stream that starts the first step when it is built
NewStream_Eager(s0, ctx) ==
    [created |-> TRUE, state |-> None, fut |-> Some([state |-> s0, ctx |-> ctx]),
     awaiting |-> FALSE, last |-> NoPoll]

\* EndStateExt::into_stream: try_unfold((self, ctx), f) builds the stream and
\* calls nothing
NewStream(s0, ctx) ==
    [created |-> TRUE, state |-> Some([state |-> s0, ctx |-> ctx]), fut |-> None,
     awaiting |-> FALSE, last |-> NoPoll]

NoStream == [created |-> FALSE, state |-> None, fut |-> None,
             awaiting |-> FALSE, last |-> NoPoll]

\* calls: the (state, ctx) each next call was given; rets: what each returned
NewHist(s0, ctx) ==
    [init |-> s0, ctx |-> ctx, polls |-> 0, started |-> 0, done |-> 0,
     nones |-> 0, out |-> <<>>, calls |-> <<>>, rets |-> <<>>]

NoHist == [init |-> "A", ctx |-> "c1", polls |-> 0, started |-> 0, done |-> 0,
           nones |-> 0, out |-> <<>>, calls |-> <<>>, rets |-> <<>>]

\* a stream whose first answer is the state it was built from
PollStream_YieldsSeed(s) ==
    IF s.state.tag = "Some"
    THEN IF s.last = NoPoll
         THEN [s EXCEPT !.last = Some(Ok(s.state.val.state))]
         ELSE [s EXCEPT !.state = None, !.fut = Some(s.state.val), !.awaiting = TRUE]
    ELSE IF s.fut.tag = "Some"
         THEN [s EXCEPT !.awaiting = TRUE]
         ELSE [s EXCEPT !.last = None]

\* TryUnfold::poll_next on a pull of the consumer (StreamExt::next): a state
\* that is there is taken and the closure's future, that is next, starts; a
\* stream with neither state nor future answers None
PollStream(s) ==
    IF s.state.tag = "Some"
    THEN [s EXCEPT !.state = None, !.fut = Some(s.state.val), !.awaiting = TRUE]
    ELSE IF s.fut.tag = "Some"
         THEN [s EXCEPT !.awaiting = TRUE]
         ELSE [s EXCEPT !.last = None]

StreamPoll(i) ==
    /\ stream[i].created
    /\ ~stream[i].awaiting
    /\ hist[i].polls < MaxSteps
    /\ LET s2 == PollStream(stream[i]) IN
       /\ stream' = [stream EXCEPT ![i] = s2]
       /\ hist' = [hist EXCEPT
                     ![i].polls = @ + 1,
                     ![i].started = IF s2.fut.tag = "Some" /\ stream[i].fut.tag = "None"
                                    THEN @ + 1 ELSE @,
                     ![i].calls = IF s2.fut.tag = "Some" /\ stream[i].fut.tag = "None"
                                  THEN Append(@, s2.fut.val) ELSE @,
                     ![i].nones = IF s2.awaiting THEN @ ELSE @ + 1]

\* next returns n to the pending pull: the closure finishes and poll_next
\* answers the consumer
StepDeliver(i, n) ==
    /\ stream[i].created
    /\ stream[i].awaiting
    /\ stream[i].fut.tag = "Some"
    /\ LET f == stream[i].fut.val
           r == TryUnfoldStep(UnfoldClosure(n, f.ctx))
       IN
       /\ stream' = [stream EXCEPT ![i] =
                        [@ EXCEPT !.fut = r.fut, !.state = r.state,
                                  !.awaiting = FALSE, !.last = r.ret]]
       /\ hist' = [hist EXCEPT
                     ![i].done = @ + 1,
                     ![i].rets = Append(@, n),
                     ![i].out = IF r.ret.tag = "Some" THEN Append(@, r.ret.val) ELSE @,
                     ![i].nones = IF r.ret.tag = "Some" THEN @ ELSE @ + 1]

(***************************************************************************)
(* The stream driven directly, as assert_matches does: into_stream, then   *)
(* StreamExt::next as often as the consumer likes.                         *)
(***************************************************************************)
TestIntoStream(i, s0, ctx) ==
    /\ ~stream[i].created
    /\ stream' = [stream EXCEPT ![i] = NewStream(s0, ctx)]
    /\ hist' = [hist EXCEPT ![i] = NewHist(s0, ctx)]
    /\ UNCHANGED <<world, failDone, workerVars, pureVars, nameVars>>

TestPull(i) ==
    /\ StreamPoll(i)
    /\ UNCHANGED <<world, failDone, workerVars, pureVars, nameVars>>

\* any EndState: next returns any value of the type
StepReady(i) ==
    /\ stream[i].fut.tag = "Some"
    /\ \E n \in NextResults(stream[i].fut.val.state, stream[i].fut.val.ctx) :
          StepDeliver(i, n)
    /\ UNCHANGED <<world, failDone, workerVars, pureVars, nameVars>>

InitStreams ==
    /\ stream = [i \in Items |-> NoStream]
    /\ hist = [i \in Items |-> NoHist]
    /\ world = "ok"
    /\ failDone = [i \in Items |-> 0]

\* no driver: the unit is not being driven
NoDriver == [pc |-> "none", origin |-> "api", base |-> None, upd |-> <<>>, commits |-> 0]

InitWorker ==
    /\ mainPc = "start"
    /\ sender = FALSE
    /\ tasks = {}
    /\ queue = <<>>
    /\ drv = [i \in Items |-> NoDriver]
    /\ store = [i \in Items |-> None]
    /\ active = [i \in Items |-> 0]
    /\ ghost = [lastCommitted |-> [i \in Items |-> None],
                surfaced |-> [i \in Items |-> 0],
                submitted |-> {},
                restarts |-> 0,
                commitFails |-> 0,
                steps |-> <<>>,
                refreshFailed |-> FALSE,
                logged |-> <<>>]

InitPure ==
    /\ errs = [x \in {"a", "b"} |-> None]
    /\ resps = [x \in {"a", "b"} |-> None]
    /\ conv = None

\* nothing parsed yet
NotRun == [tag |-> "NotRun"]

InitNames ==
    names = [input |-> <<>>, project |-> NotRun, account |-> NotRun, de |-> NotRun]

InitStream == InitStreams /\ InitWorker /\ InitPure /\ InitNames

NextStream ==
    \E i \in TestItems :
        \/ \E s0 \in States, c \in Ctxs : TestIntoStream(i, s0, c)
        \/ TestPull(i)
        \/ StepReady(i)

SpecStream == InitStream /\ [][NextStream]_vars

(***************************************************************************)
(* The end-to-end scenario: units submitted in state A, driven directly,   *)
(* next being the scenario's lifecycle over the external resource.         *)
(***************************************************************************)
ScenarioStart(i, ctx) == TestIntoStream(i, "A", ctx)

ScenarioStep(i) ==
    /\ stream[i].fut.tag = "Some"
    /\ StepDeliver(i, ScenarioNext(stream[i].fut.val.state, world))
    /\ UNCHANGED <<world, failDone, workerVars, pureVars, nameVars>>

\* the external resource starts to report a failure
ResourceFails ==
    /\ world = "ok"
    /\ world' = "fail"
    /\ failDone' = [i \in Items |-> hist[i].done]
    /\ UNCHANGED <<stream, hist, workerVars, pureVars, nameVars>>

InitScenario == InitStreams /\ InitWorker /\ InitPure /\ InitNames

NextScenario ==
    \/ \E i \in Items, c \in Ctxs : ScenarioStart(i, c)
    \/ \E i \in Items : TestPull(i)
    \/ \E i \in Items : ScenarioStep(i)
    \/ ResourceFails

SpecScenario == InitScenario /\ [][NextScenario]_vars

(***************************************************************************)
(* Properties of the stream driver.                                        *)
(***************************************************************************)
Last(s) == s[Len(s)]

\* the TryUnfold object holds neither a state nor a future: it has ended
Ended(i) == stream[i].created /\ stream[i].state.tag = "None" /\ stream[i].fut.tag = "None"

\* C1: a yielded item that is done (or any Ok item) does not stop the stream.
\* While no Err has been yielded the stream has not ended and has answered no
\* pull with None, and every pending pull has a next call running for it, so
\* that the pull yields the next item as soon as next returns.
C1_DoneDoesNotStop ==
    \A i \in Items :
        (stream[i].created /\ (hist[i].out = <<>> \/ Last(hist[i].out).tag = "Ok"))
        => /\ ~Ended(i)
           /\ hist[i].nones = 0
           /\ stream[i].awaiting => stream[i].fut.tag = "Some"
           /\ ~stream[i].awaiting => stream[i].state.tag = "Some"

\* C1's case: an item that is done was yielded, and an item after it
C1_Witness ==
    \E i \in Items : \E k \in 1..Len(hist[i].out) :
        /\ hist[i].out[k].tag = "Ok"
        /\ IsDone(hist[i].out[k].val)
        /\ k < Len(hist[i].out)
        /\ hist[i].out[k + 1].tag = "Ok"

C3_OneNextPerItem ==
    \A i \in Items :
        stream[i].created =>
        /\ Len(hist[i].out) = hist[i].done
        /\ hist[i].started = hist[i].done + (IF stream[i].fut.tag = "Some" THEN 1 ELSE 0)

\* C3's case: two equal consecutive snapshots, two next calls
C3_Witness ==
    \E i \in Items :
        /\ Len(hist[i].out) >= 2
        /\ hist[i].out[1] = hist[i].out[2]
        /\ hist[i].done = 2

\* the items of the scenario: B, then Done for ever
Expected(k) == IF k = 1 THEN "B" ELSE "Done"

ServiceContext == "c1"

\* GatewayService::init(args): the service is built without a sender
MainInit ==
    /\ mainPc = "start"
    /\ mainPc' = "gateway"
    /\ sender' = FALSE
    /\ ghost' = [ghost EXCEPT !.steps = Append(@, "init")]
    /\ UNCHANGED <<streamVars, tasks, queue, drv, store, active, pureVars, nameVars>>

\* Worker::new(gateway): the Worker and its queue
MainNewWorker ==
    /\ mainPc = "gateway"
    /\ mainPc' = "worker"
    /\ queue' = <<>>
    /\ ghost' = [ghost EXCEPT !.steps = Append(@, "new_worker")]
    /\ UNCHANGED <<streamVars, sender, tasks, drv, store, active, pureVars, nameVars>>

\* a main that attaches no sender
MainSetSender_Skipped ==
    /\ mainPc = "worker"
    /\ mainPc' = "sender"
    /\ sender' = FALSE
    /\ ghost' = [ghost EXCEPT !.steps = Append(@, "set_sender")]
    /\ UNCHANGED <<streamVars, tasks, queue, drv, store, active, pureVars, nameVars>>

\* gateway.set_sender(Some(worker.sender()))
MainSetSender ==
    /\ mainPc = "worker"
    /\ mainPc' = "sender"
    /\ sender' = TRUE
    /\ ghost' = [ghost EXCEPT !.steps = Append(@, "set_sender")]
    /\ UNCHANGED <<streamVars, tasks, queue, drv, store, active, pureVars, nameVars>>

\* GatewayService::refresh: every unit the persistence knows is sent to the
\* Worker as work, in the state that was committed last
RefreshWork(order) ==
    [k \in 1..Len(order) |->
        [id |-> order[k], state |-> store[order[k]].val, origin |-> "refresh"]]

\* the units the persistence holds, in any order
StoredOrders ==
    LET S == {i \in Items : store[i].tag = "Some"} IN
    {o \in UNION {[1..n -> S] : n \in 0..Cardinality(S)} :
        /\ Len(o) = Cardinality(S)
        /\ \A a, b \in 1..Len(o) : a # b => o[a] # o[b]}

\* gateway.refresh() returns Ok
MainRefreshOk ==
    /\ mainPc = "sender"
    /\ sender
    /\ mainPc' = "refreshed"
    /\ \E o \in StoredOrders : queue' = queue \o RefreshWork(o)
    /\ ghost' = [ghost EXCEPT !.steps = Append(@, "refresh")]
    /\ UNCHANGED <<streamVars, sender, tasks, drv, store, active, pureVars, nameVars>>

\* a main that logs the error of refresh and goes on
MainRefreshErr_Continues ==
    /\ mainPc = "sender"
    /\ mainPc' = "refreshed"
    /\ ghost' = [ghost EXCEPT !.steps = Append(@, "refresh"),
                            !.refreshFailed = TRUE,
                            !.logged = Append(@, "failed to refresh state at startup")]
    /\ UNCHANGED <<streamVars, sender, tasks, queue, drv, store, active, pureVars, nameVars>>

\* gateway.refresh() returns Err: the error is logged and unwrap panics
MainRefreshErr ==
    /\ mainPc = "sender"
    /\ mainPc' = "aborted"
    /\ ghost' = [ghost EXCEPT !.steps = Append(@, "refresh"),
                            !.refreshFailed = TRUE,
                            !.logged = Append(@, "failed to refresh state at startup")]
    /\ UNCHANGED <<streamVars, sender, tasks, queue, drv, store, active, pureVars, nameVars>>

\* tokio::spawn(worker.start())
MainSpawnWorker ==
    /\ mainPc = "refreshed"
    /\ mainPc' = "workerSpawned"
    /\ tasks' = tasks \cup {"worker"}
    /\ ghost' = [ghost EXCEPT !.steps = Append(@, "spawn_worker")]
    /\ UNCHANGED <<streamVars, sender, queue, drv, store, active, pureVars, nameVars>>

\* make_api and tokio::spawn of the control server
MainSpawnApi ==
    /\ mainPc = "workerSpawned"
    /\ mainPc' = "apiSpawned"
    /\ tasks' = tasks \cup {"api"}
    /\ ghost' = [ghost EXCEPT !.steps = Append(@, "spawn_api")]
    /\ UNCHANGED <<streamVars, sender, queue, drv, store, active, pureVars, nameVars>>

\* make_proxy, tokio::spawn of the user server, and the join of the three
MainSpawnProxy ==
    /\ mainPc = "apiSpawned"
    /\ mainPc' = "serving"
    /\ tasks' = tasks \cup {"proxy"}
    /\ ghost' = [ghost EXCEPT !.steps = Append(@, "spawn_proxy")]
    /\ UNCHANGED <<streamVars, sender, queue, drv, store, active, pureVars, nameVars>>

\* the process stops (shutdown, crash or the abort of main) and is started
\* again: what was committed stays, everything in memory is gone
Restart ==
    /\ mainPc # "start"
    /\ ghost.restarts < MaxRestarts
    /\ mainPc' = "start"
    /\ sender' = FALSE
    /\ tasks' = {}
    /\ queue' = <<>>
    /\ drv' = [i \in Items |-> NoDriver]
    /\ active' = [i \in Items |-> 0]
    /\ stream' = [i \in Items |-> NoStream]
    /\ hist' = [i \in Items |-> NoHist]
    /\ ghost' = [ghost EXCEPT !.restarts = @ + 1, !.steps = <<>>,
                            !.refreshFailed = FALSE, !.logged = <<>>]
    /\ UNCHANGED <<world, failDone, store, pureVars, nameVars>>

\* the administrative boundary enqueues a unit of work in its initial state;
\* a unit is submitted once
Submit(i) ==
    /\ "api" \in tasks
    /\ sender
    /\ i \notin ghost.submitted
    /\ queue' = Append(queue, [id |-> i, state |-> "A", origin |-> "api"])
    /\ ghost' = [ghost EXCEPT !.submitted = @ \cup {i}]
    /\ UNCHANGED <<streamVars, mainPc, sender, tasks, drv, store, active, pureVars, nameVars>>

\* a queue that keeps the element it hands out
Handoff_Shares(q) == q

\* the queue hands the element over: it is no longer in the queue
Handoff(q) == Tail(q)

\* the Worker takes a unit from the queue and spawns a driver for it, which
\* owns the unit's stream
WorkerDequeue ==
    /\ "worker" \in tasks
    /\ queue # <<>>
    /\ LET w == Head(queue) IN
       /\ queue' = Handoff(queue)
       /\ stream' = [stream EXCEPT ![w.id] = NewStream(w.state, ServiceContext)]
       /\ hist' = [hist EXCEPT ![w.id] = NewHist(w.state, ServiceContext)]
       /\ drv' = [drv EXCEPT ![w.id] =
                    [pc |-> "pull", origin |-> w.origin, base |-> store[w.id],
                     upd |-> <<>>, commits |-> 0]]
       /\ active' = [active EXCEPT ![w.id] = @ + 1]
    /\ UNCHANGED <<world, failDone, mainPc, sender, tasks, store, ghost, pureVars, nameVars>>

\* the driver pulls the next snapshot from its stream
DriverPull(i) ==
    /\ drv[i].pc = "pull"
    /\ StreamPoll(i)
    /\ drv' = [drv EXCEPT ![i].pc = "wait"]
    /\ UNCHANGED <<world, failDone, mainPc, sender, tasks, queue, store, active, ghost, pureVars, nameVars>>

\* an update that writes the snapshot although it reports a failure
ServiceUpdate_WritesOnFailure(st, i, s, ok) == [st EXCEPT ![i] = Some(s)]

\* Service::update: the snapshot is recorded, or the update fails and records
\* nothing
ServiceUpdate(st, i, s, ok) == IF ok THEN [st EXCEPT ![i] = Some(s)] ELSE st

\* the stream has answered the driver's pull
Answered(i) == drv[i].pc = "wait" /\ ~stream[i].awaiting

\* the driver commits the snapshot it was yielded, and goes on
DriverCommitOk(i) ==
    /\ Answered(i)
    /\ stream[i].last.tag = "Some"
    /\ stream[i].last.val.tag = "Ok"
    /\ LET s == stream[i].last.val.val IN
       /\ store' = ServiceUpdate(store, i, s, TRUE)
       /\ drv' = [drv EXCEPT ![i].pc = "pull",
                             ![i].upd = Append(@, s),
                             ![i].commits = @ + 1]
       /\ ghost' = [ghost EXCEPT !.lastCommitted[i] = Some(s)]
    /\ UNCHANGED <<streamVars, mainPc, sender, tasks, queue, active, pureVars, nameVars>>

\* the commit fails: the failure is surfaced to the Worker and the driver
\* stops; the unit stays what the persistence holds
DriverCommitFail(i) ==
    /\ Answered(i)
    /\ stream[i].last.tag = "Some"
    /\ stream[i].last.val.tag = "Ok"
    /\ ghost.commitFails < MaxCommitFailures
    /\ LET s == stream[i].last.val.val IN
       /\ store' = ServiceUpdate(store, i, s, FALSE)
       /\ drv' = [drv EXCEPT ![i].pc = "commitFailed", ![i].upd = Append(@, s)]
       /\ ghost' = [ghost EXCEPT !.surfaced[i] = Len(drv[i].upd) + 1,
                                 !.commitFails = @ + 1]
    /\ active' = [active EXCEPT ![i] = @ - 1]
    /\ UNCHANGED <<streamVars, mainPc, sender, tasks, queue, pureVars, nameVars>>

\* the stream ended (a declared failure, or None): the unit is retired
DriverRetire(i) ==
    /\ Answered(i)
    /\ ~(stream[i].last.tag = "Some" /\ stream[i].last.val.tag = "Ok")
    /\ drv' = [drv EXCEPT ![i].pc = "retired"]
    /\ active' = [active EXCEPT ![i] = @ - 1]
    /\ UNCHANGED <<streamVars, mainPc, sender, tasks, queue, store, ghost, pureVars, nameVars>>

\* the external resource starts to report a failure while the Worker runs
WorldFails ==
    /\ world = "ok"
    /\ world' = "fail"
    /\ UNCHANGED <<stream, hist, failDone, workerVars, pureVars, nameVars>>

InitWorkerSpec == InitStreams /\ InitWorker /\ InitPure /\ InitNames

NextWorker ==
    \/ MainInit
    \/ MainNewWorker
    \/ MainSetSender
    \/ MainRefreshOk
    \/ MainRefreshErr
    \/ MainSpawnWorker
    \/ MainSpawnApi
    \/ MainSpawnProxy
    \/ Restart
    \/ \E i \in Items : Submit(i)
    \/ WorkerDequeue
    \/ \E i \in Items : DriverPull(i)
    \/ \E i \in Items : ScenarioStep(i)
    \/ \E i \in Items : DriverCommitOk(i)
    \/ \E i \in Items : DriverCommitFail(i)
    \/ \E i \in Items : DriverRetire(i)
    \/ WorldFails

SpecWorker == InitWorkerSpec /\ [][NextWorker]_vars

(***************************************************************************)
(* Properties of the Worker and its drivers.                               *)
(***************************************************************************)
Driven(i) == drv[i].pc # "none"

InQueue(i) == Cardinality({k \in DOMAIN queue : queue[k].id = i})

\* C5: within one unit the steps are sequential with the commit in between.
\* Service::update is called for the yielded snapshots, in their order; while
\* a next call is running every snapshot yielded so far has been evaluated,
\* yielded and passed to update; at most one snapshot is yielded and not yet
\* passed to update, and at most one next call runs.
C5_StepsSequentialWithCommit ==
    \A i \in Items :
        Driven(i) =>
        LET o == hist[i].out
            u == drv[i].upd
        IN
        /\ Len(u) <= Len(o)
        /\ Len(o) <= Len(u) + 1
        /\ \A k \in 1..Len(u) : o[k] = Ok(u[k])
        /\ hist[i].started <= Len(u) + 1
        /\ hist[i].started - hist[i].done \in {0, 1}
        /\ stream[i].fut.tag = "Some" =>
              /\ Len(u) = Len(o)
              /\ hist[i].done = Len(o)
              /\ hist[i].started = Len(u) + 1

\* C5's case: the third step runs, two snapshots were yielded and committed
C5_Witness ==
    \E i \in Items :
        /\ Driven(i)
        /\ stream[i].fut.tag = "Some"
        /\ hist[i].started = 3
        /\ drv[i].commits = 2

C7_CommitFailureAndResume ==
    \A i \in Items :
        /\ store[i] = ghost.lastCommitted[i]
        /\ drv[i].pc = "commitFailed" =>
              /\ ghost.surfaced[i] = Len(drv[i].upd)
              /\ drv[i].commits = Len(drv[i].upd) - 1
              /\ hist[i].started = Len(hist[i].out)
              /\ hist[i].started = Len(drv[i].upd)
              /\ stream[i].fut.tag = "None"
              /\ ~stream[i].awaiting
              /\ active[i] = 0
              /\ store[i] = IF drv[i].commits = 0 THEN drv[i].base
                            ELSE Some(hist[i].out[drv[i].commits].val)
        /\ \A k \in DOMAIN queue :
              (queue[k].id = i /\ queue[k].origin = "refresh")
              => Some(queue[k].state) = ghost.lastCommitted[i]
        /\ (Driven(i) /\ drv[i].origin = "refresh") =>
              /\ drv[i].base = Some(hist[i].init)
              /\ drv[i].commits = 0 => ghost.lastCommitted[i] = Some(hist[i].init)

\* C7's case: the commit of step 2 failed after step 1 (B) was committed, the
\* process was started again, and the unit runs again from B
C7_Witness ==
    \E i \in Items :
        /\ ghost.surfaced[i] = 2
        /\ ghost.restarts = 1
        /\ drv[i].origin = "refresh"
        /\ hist[i].init = "B"
        /\ hist[i].out = <<Ok("Done")>>

(***************************************************************************)
(* The Error taxonomy and its external representation.                     *)
(***************************************************************************)
\* enum ErrorKind
ErrorKinds ==
    {"KeyMissing", "BadHost", "KeyMalformed", "Unauthorized", "Forbidden",
     "UserNotFound", "UserAlreadyExists", "ProjectNotFound", "InvalidProjectName",
     "ProjectAlreadyExists", "ProjectNotReady", "ProjectUnavailable",
     "InvalidOperation", "Internal", "NotReady"}

\* the lower-level errors an Error may wrap, by what they display
SourceErrors == {"database is locked"}
\* the messages Error::custom is called with
CustomMessages == {"invalid response code from runtime: 500"}

\* Error::source
ErrorSource(kind, err) == [kind |-> kind, source |-> Some(err)]

\* Error::custom: the message is boxed as an io::Error of kind Other
ErrorCustom(kind, message) == [kind |-> kind, source |-> Some(message)]

\* Error::from_kind
ErrorFromKind(kind) == [kind |-> kind, source |-> None]

\* the match of Error::into_response
StatusAndMessage(kind) ==
    CASE kind = "Internal" -> <<500, "internal server error">>
      [] kind = "KeyMissing" -> <<401, "request is missing a key">>
      [] kind = "KeyMalformed" -> <<400, "request has an invalid key">>
      [] kind = "BadHost" -> <<400, "the 'Host' header is invalid">>
      [] kind = "UserNotFound" -> <<404, "user not found">>
      [] kind = "UserAlreadyExists" -> <<400, "user already exists">>
      [] kind = "ProjectNotFound" -> <<404, "project not found">>
      [] kind = "ProjectNotReady" -> <<503, "project not ready">>
      [] kind = "ProjectUnavailable" -> <<502, "project returned invalid response">>
      [] kind = "InvalidProjectName" -> <<400, "invalid project name">>
      [] kind = "InvalidOperation" -> <<400, "the requested operation is invalid">>
      [] kind = "ProjectAlreadyExists" ->
            <<400, "a project with the same name already exists">>
      [] kind = "Unauthorized" -> <<401, "unauthorized">>
      [] kind = "Forbidden" -> <<403, "forbidden">>
      [] kind = "NotReady" -> <<500, "not ready yet">>

\* a response that answers "not ready" as a service that is unavailable
IntoResponse_NotReadyUnavailable(e) ==
    LET p == StatusAndMessage(e.kind) IN
    [status |-> IF e.kind = "NotReady" THEN 503 ELSE p[1], body |-> [error |-> p[2]]]

\* a response that also reports the wrapped cause
IntoResponse_ReportsCause(e) ==
    LET p == StatusAndMessage(e.kind) IN
    IF e.source.tag = "Some"
    THEN [status |-> p[1], body |-> [error |-> p[2], cause |-> e.source.val]]
    ELSE [status |-> p[1], body |-> [error |-> p[2]]]

\* Error::into_response: (status, Json(json!({ "error": error_message })))
IntoResponse(e) ==
    LET p == StatusAndMessage(e.kind) IN
    [status |-> p[1], body |-> [error |-> p[2]]]

BuildSource(x, kind, err) ==
    /\ errs[x] = None
    /\ errs' = [errs EXCEPT ![x] = Some(ErrorSource(kind, err))]
    /\ UNCHANGED <<streamVars, workerVars, resps, conv, nameVars>>

BuildCustom(x, kind, message) ==
    /\ errs[x] = None
    /\ errs' = [errs EXCEPT ![x] = Some(ErrorCustom(kind, message))]
    /\ UNCHANGED <<streamVars, workerVars, resps, conv, nameVars>>

BuildFromKind(x, kind) ==
    /\ errs[x] = None
    /\ errs' = [errs EXCEPT ![x] = Some(ErrorFromKind(kind))]
    /\ UNCHANGED <<streamVars, workerVars, resps, conv, nameVars>>

\* an endpoint returns the Error and axum turns it into the response
Respond(x) ==
    /\ errs[x] # None
    /\ resps[x] = None
    /\ resps' = [resps EXCEPT ![x] = Some(IntoResponse(errs[x].val))]
    /\ UNCHANGED <<streamVars, workerVars, errs, conv, nameVars>>

(***************************************************************************)
(* IntoEndState for Result<S, Err>.                                        *)
(***************************************************************************)
\* the values of S and of Err
SuccessValues == {"s1", "s2"}
FailureValues == {"e1", "e2"}

\* E: From<S>: the variant of the EndState that holds a successor state
FromSuccess(s) == [variant |-> "state", inner |-> s]

\* E: From<Err>: the variant of the EndState that holds a declared failure
FromFailure(e) == [variant |-> "errored", inner |-> e]

\* self.map(|s| E::from(s)): Result::map leaves an Err as it is
MapFrom(r) == IF r.tag = "Ok" THEN Ok(FromSuccess(r.val)) ELSE r

\* .or_else(|err| Ok(E::from(err))): Result::or_else leaves an Ok as it is
OrElseFrom(r) == IF r.tag = "Ok" THEN r ELSE Ok(FromFailure(r.val))

\* a conversion that passes the failure on instead of turning it into a state
IntoEndState_KeepsErr(r) == MapFrom(r)

\* into_end_state: self.map(|s| E::from(s)).or_else(|err| Ok(E::from(err)))
IntoEndState(r) == OrElseFrom(MapFrom(r))

Convert(r) ==
    /\ conv = None
    /\ conv' = Some([in |-> r, out |-> IntoEndState(r)])
    /\ UNCHANGED <<streamVars, workerVars, errs, resps, nameVars>>

InitPureSpec == InitStreams /\ InitWorker /\ InitPure /\ InitNames

NextPure ==
    \/ \E x \in {"a", "b"}, k \in ErrorKinds, e \in SourceErrors : BuildSource(x, k, e)
    \/ \E x \in {"a", "b"}, k \in ErrorKinds, m \in CustomMessages : BuildCustom(x, k, m)
    \/ \E x \in {"a", "b"}, k \in ErrorKinds : BuildFromKind(x, k)
    \/ \E x \in {"a", "b"} : Respond(x)
    \/ \E s \in SuccessValues : Convert(Ok(s))
    \/ \E e \in FailureValues : Convert(Err(e))

SpecPure == InitPureSpec /\ [][NextPure]_vars

TableStatus(k) ==
    CASE k \in {"Internal", "NotReady"} -> 500
      [] k \in {"KeyMissing", "Unauthorized"} -> 401
      [] k \in {"KeyMalformed", "BadHost", "InvalidProjectName", "InvalidOperation",
                "UserAlreadyExists", "ProjectAlreadyExists"} -> 400
      [] k = "Forbidden" -> 403
      [] k \in {"UserNotFound", "ProjectNotFound"} -> 404
      [] k = "ProjectNotReady" -> 503
      [] k = "ProjectUnavailable" -> 502

\* the messages the specification's table spells out
TableMessage ==
    [k \in {"Internal", "NotReady", "KeyMissing", "Unauthorized", "Forbidden",
            "ProjectNotReady", "ProjectUnavailable"} |->
        CASE k = "Internal" -> "internal server error"
          [] k = "NotReady" -> "not ready yet"
          [] k = "KeyMissing" -> "request is missing a key"
          [] k = "Unauthorized" -> "unauthorized"
          [] k = "Forbidden" -> "forbidden"
          [] k = "ProjectNotReady" -> "project not ready"
          [] k = "ProjectUnavailable" -> "project returned invalid response"]

Responded(x) == errs[x] # None /\ resps[x] # None

\* C9: the mapping from ErrorKind to the HTTP response is total over the 15
\* kinds with the pairs of the table: every response carries the status the
\* table gives for the kind of its Error and the message the table spells
\* out, and the message of a kind is always the same one.
C9_ErrorTable ==
    /\ Cardinality(ErrorKinds) = 15
    /\ \A x \in {"a", "b"} :
          Responded(x) =>
          LET k == errs[x].val.kind
              r == resps[x].val
          IN
          /\ k \in ErrorKinds
          /\ r.status = TableStatus(k)
          /\ k \in DOMAIN TableMessage => r.body.error = TableMessage[k]
    /\ \A x, y \in {"a", "b"} :
          (Responded(x) /\ Responded(y)) =>
          (errs[x].val.kind = errs[y].val.kind
             => resps[x].val.body.error = resps[y].val.body.error)

\* C9's case: a response for each of two kinds of the table
C9_Witness ==
    /\ Responded("a")
    /\ Responded("b")
    /\ errs["a"].val.kind = "NotReady"
    /\ resps["a"].val.status = 500
    /\ errs["b"].val.kind = "ProjectUnavailable"
    /\ resps["b"].val.status = 502

\* C10: the response depends on the kind alone.  Two Errors of the same kind,
\* whatever they wrap, give the same status and the same body; the body has
\* the single field error; what the Error wraps is not in the response.
C10_ResponseDependsOnKindOnly ==
    /\ \A x, y \in {"a", "b"} :
          (Responded(x) /\ Responded(y) /\ errs[x].val.kind = errs[y].val.kind)
          => resps[x] = resps[y]
    /\ \A x \in {"a", "b"} :
          Responded(x) =>
          /\ DOMAIN resps[x].val = {"status", "body"}
          /\ DOMAIN resps[x].val.body = {"error"}
          /\ resps[x].val.body.error \notin SourceErrors \cup CustomMessages

\* C10's case: the same kind, once with a wrapped cause and once without
C10_Witness ==
    /\ Responded("a")
    /\ Responded("b")
    /\ errs["a"].val.kind = errs["b"].val.kind
    /\ errs["a"].val.source = Some("database is locked")
    /\ errs["b"].val.source = None

(***************************************************************************)
(* The validated identifiers: ProjectName and AccountName.                 *)
(***************************************************************************)
\* the bounds of the repetition {3,64} of the pattern
NameMinLen == 3
NameMaxLen == 64

\* characters of the class [a-zA-Z0-9\-_], and others
ClassChars == {"a", "Z", "7", "-", "_"}
OtherChars == {"/", "\n"}
Alphabet == ClassChars \cup OtherChars

\* a string filled up with "a" to the length n
Pad(s, n) == s \o [k \in 1..(n - Len(s)) |-> "a"]

\* the strings tried: every string up to MaxShort characters, and each of
\* them filled up to one less than, exactly and one more than the longest
\* length the pattern admits
ShortStrings == UNION {[1..n -> Alphabet] : n \in 0..MaxShort}
Inputs ==
    ShortStrings \cup
    {Pad(s, n) : s \in ShortStrings, n \in {NameMaxLen - 1, NameMaxLen, NameMaxLen + 1}}

\* the number of characters of the class at the start of s from position k on,
\* as the repetition of the class consumes them
RECURSIVE ClassRun(_, _)
ClassRun(s, k) ==
    IF k > Len(s) \/ s[k] \notin ClassChars THEN 0 ELSE 1 + ClassRun(s, k + 1)

\* a pattern whose repetition admits one character less
IsMatch_OneShort(s) ==
    LET n == ClassRun(s, 1) IN
    /\ n >= NameMinLen
    /\ n <= NameMaxLen - 1
    /\ n = Len(s)

\* Regex::new("^[a-zA-Z0-9\\-_]{3,64}$").is_match(s): from the start of the
\* text, 3 to 64 characters of the class, then the end of the text
IsMatch(s) ==
    LET n == ClassRun(s, 1) IN
    /\ n >= NameMinLen
    /\ n <= NameMaxLen
    /\ n = Len(s)

\* struct ProjectName(pub String)
ProjectName(s) == [type |-> "ProjectName", inner |-> s]

\* struct AccountName(pub String)
AccountName(s) == [type |-> "AccountName", inner |-> s]

\* ProjectName::from_str
ProjectFromStr(s) ==
    IF IsMatch(s) THEN Ok(ProjectName(s))
    ELSE Err(ErrorFromKind("InvalidProjectName"))

\* an AccountName::from_str that applies the pattern of the project names
AccountFromStr_Validates(s) ==
    IF IsMatch(s) THEN Ok(AccountName(s))
    ELSE Err(ErrorFromKind("InvalidProjectName"))

\* AccountName::from_str
AccountFromStr(s) == Ok(AccountName(s))

\* a display in the manner of Debug, with the string quoted
Display_Quoted(name) == <<"'">> \o name.inner \o <<"'">>

\* Display for ProjectName and for AccountName: self.0.fmt(f)
Display(name) == name.inner

\* the values a deserializer may hold: a string, or a value of another type
JsonString(s) == [tag |-> "String", val |-> s]
JsonNumber == [tag |-> "Number"]

\* String::deserialize(deserializer): the string, or the deserializer's error
StringDeserialize(v) ==
    IF v.tag = "String" THEN Ok(v.val) ELSE Err("invalid type")

\* todo!() never returns: the thread panics
Panic == [tag |-> "Panic", message |-> "not yet implemented"]

\* a deserialization as a derive would generate it: the string is wrapped
DeserializeProjectName_Derived(v) ==
    LET s == StringDeserialize(v) IN
    IF s.tag = "Err" THEN s ELSE Ok(ProjectName(s.val))

\* Deserialize for ProjectName:
\* String::deserialize(deserializer)?.parse().map_err(|_err| todo!())
DeserializeProjectName(v) ==
    LET s == StringDeserialize(v) IN
    IF s.tag = "Err" THEN s
    ELSE LET parsed == ProjectFromStr(s.val) IN
         IF parsed.tag = "Ok" THEN parsed ELSE Panic

ParseProject ==
    /\ names.project = NotRun
    /\ names' = [names EXCEPT !.project = ProjectFromStr(names.input)]
    /\ UNCHANGED <<streamVars, workerVars, pureVars>>

ParseAccount ==
    /\ names.account = NotRun
    /\ names' = [names EXCEPT !.account = AccountFromStr(names.input)]
    /\ UNCHANGED <<streamVars, workerVars, pureVars>>

DeserializeProject(v) ==
    /\ names.de = NotRun
    /\ names' = [names EXCEPT !.de = [of |-> v, res |-> DeserializeProjectName(v)]]
    /\ UNCHANGED <<streamVars, workerVars, pureVars>>

InitNamesSpec ==
    /\ InitStreams /\ InitWorker /\ InitPure
    /\ \E s \in Inputs :
          names = [input |-> s, project |-> NotRun, account |-> NotRun, de |-> NotRun]

NextNames ==
    \/ ParseProject
    \/ ParseAccount
    \/ \E v \in {JsonString(names.input), JsonNumber} : DeserializeProject(v)

SpecNames == InitNamesSpec /\ [][NextNames]_vars

(***************************************************************************)
(* Properties of the validated identifiers.                                *)
(***************************************************************************)
\* the pattern, read as a condition on the string: 3 to 64 characters, each
\* a letter, a digit, a hyphen or an underscore
MatchesPattern(s) ==
    /\ Len(s) \in NameMinLen..NameMaxLen
    /\ \A k \in 1..Len(s) : s[k] \in ClassChars

\* C11: ProjectName::from_str succeeds for every input that matches the
\* pattern, and the value displays as the input; for every other input (empty,
\* too short, too long, a character outside the class) it fails with
\* InvalidProjectName.
C11_ProjectNameRoundTrip ==
    names.project # NotRun =>
    IF MatchesPattern(names.input)
    THEN /\ names.project.tag = "Ok"
         /\ Display(names.project.val) = names.input
    ELSE /\ names.project.tag = "Err"
         /\ names.project.val.kind = "InvalidProjectName"

\* C11's case: a name of 64 characters was accepted
C11_Witness ==
    /\ Len(names.input) = NameMaxLen
    /\ names.project.tag = "Ok"
    /\ Display(names.project.val) = names.input

C15_AccountNameRoundTrip ==
    (names.account # NotRun /\ Len(names.input) >= 1) =>
        /\ names.account.tag = "Ok"
        /\ Display(names.account.val) = names.input

\* C15's case: an account name of 65 characters was accepted
C15_Witness ==
    /\ Len(names.input) = NameMaxLen + 1
    /\ names.account.tag = "Ok"
    /\ Display(names.account.val) = names.input

\* C20: deserializing a ProjectName from a string gives a ProjectName exactly
\* when from_str accepts the string, and then the same value; for a string
\* from_str rejects it gives neither a value nor a deserialization error: it
\* panics in todo!().
C20_DeserializeAgreesWithFromStr ==
    (names.de # NotRun /\ names.de.of.tag = "String") =>
        LET parsed == ProjectFromStr(names.de.of.val) IN
        /\ names.de.res.tag = "Ok" <=> parsed.tag = "Ok"
        /\ names.de.res.tag = "Ok" => names.de.res.val = parsed.val
        /\ parsed.tag = "Err" => names.de.res = Panic

\* C20's case: a string with a character outside the class was deserialized
C20_Witness ==
    /\ names.de # NotRun
    /\ names.de.of.tag = "String"
    /\ \E k \in 1..Len(names.de.of.val) : names.de.of.val[k] = "/"
    /\ names.de.res = Panic

(***************************************************************************)
(* Properties of the stream as an iteration of next.                       *)
(***************************************************************************)
\* C16: the stream is the iterated transition function.  The first next call
\* is given the initial state; the k-th item is into_result of what the k-th
\* call returned; the item is Ok whenever a further call is made, and that
\* call is given exactly the item's state; the seed kept for the following
\* step equals the last item.
C16_IteratedNext ==
    \A i \in Items :
        stream[i].created =>
        LET h == hist[i] IN
        /\ Len(h.calls) >= 1 => h.calls[1].state = h.init
        /\ Len(h.out) = Len(h.rets)
        /\ \A k \in 1..Len(h.out) : h.out[k] = IntoResult(h.rets[k])
        /\ \A k \in 1..(Len(h.calls) - 1) :
              /\ h.out[k].tag = "Ok"
              /\ h.calls[k + 1].state = h.out[k].val
              /\ h.calls[k + 1].state = h.rets[k]
        /\ (stream[i].state.tag = "Some" /\ h.out # <<>>) =>
              /\ Last(h.out).tag = "Ok"
              /\ stream[i].state.val.state = Last(h.out).val

\* C16's case: three steps with three different states, each computed from
\* the item before
C16_Witness ==
    \E i \in Items :
        /\ hist[i].init = "A"
        /\ Len(hist[i].calls) = 3
        /\ hist[i].out = <<Ok("B"), Ok("Done")>>
        /\ hist[i].calls[2].state = "B"
        /\ hist[i].calls[3].state = "Done"

\* the next calls made so far: those that returned and the one running
NextCalls(i) == hist[i].done + (IF stream[i].fut.tag = "Some" THEN 1 ELSE 0)

\* a step of the system starts at most one next call of a stream, and only
\* when it is a pull of the consumer
OnePerPoll ==
    \A i \in Items :
        /\ NextCalls(i)' <= NextCalls(i) + 1
        /\ NextCalls(i)' > NextCalls(i) => hist'[i].polls = hist[i].polls + 1

\* C17: the stream is pull-driven.  A stream just built has made no next
\* call, the next calls made never exceed the pulls issued, a next call runs
\* only for a pending pull, and each pull starts at most one call.
C17_PullDriven ==
    /\ [](\A i \in Items :
             /\ NextCalls(i) <= hist[i].polls
             /\ NextCalls(i) = hist[i].started
             /\ stream[i].fut.tag = "Some" => stream[i].awaiting
             /\ (stream[i].created /\ hist[i].polls = 0) =>
                   stream[i].state = Some([state |-> hist[i].init, ctx |-> hist[i].ctx]))
    /\ [][OnePerPoll]_vars

\* C17's case: the consumer has pulled twice and stopped; two calls were made,
\* none is running
C17_Witness ==
    \E i \in Items :
        /\ hist[i].polls = 2
        /\ NextCalls(i) = 2
        /\ ~stream[i].awaiting
        /\ stream[i].state.tag = "Some"

C19_ContextUnchanged ==
    \A i \in Items :
        stream[i].created =>
        /\ \A k \in 1..Len(hist[i].calls) : hist[i].calls[k].ctx = hist[i].ctx
        /\ stream[i].state.tag = "Some" => stream[i].state.val.ctx = hist[i].ctx
        /\ stream[i].fut.tag = "Some" => stream[i].fut.val.ctx = hist[i].ctx

\* C19's case: a stream built with one Context has made four next calls
C19_Witness ==
    \E i \in Items :
        /\ hist[i].ctx = "c1"
        /\ Len(hist[i].calls) = 4
        /\ hist[i].calls[4].ctx = "c1"

(***************************************************************************)
(* Properties of the start of the process.                                 *)
(***************************************************************************)
\* the steps of main, in the order of the code
MainOrder ==
    <<"init", "new_worker", "set_sender", "refresh", "spawn_worker", "spawn_api",
      "spawn_proxy">>

\* how often main has called refresh since the process started
RefreshAttempts == Cardinality({k \in 1..Len(ghost.steps) : ghost.steps[k] = "refresh"})

\* C13: a failure of the startup refresh is fatal and not retried.  After a
\* failed refresh the error is logged, main has stopped, and neither the
\* worker nor the API nor the proxy was started; refresh is attempted at most
\* once in a process, and exactly once in a process that got past it.
C13_RefreshFailureFatal ==
    /\ RefreshAttempts <= 1
    /\ mainPc \in {"refreshed", "workerSpawned", "apiSpawned", "serving", "aborted"}
          => RefreshAttempts = 1
    /\ ghost.refreshFailed =>
          /\ mainPc = "aborted"
          /\ tasks = {}
          /\ ghost.logged = <<"failed to refresh state at startup">>
          /\ Last(ghost.steps) = "refresh"
    /\ mainPc = "aborted" => ghost.refreshFailed
    /\ ~ghost.refreshFailed => ghost.logged = <<>>

\* C13's case: the process was started again with committed work, and its
\* refresh failed
C13_Witness ==
    /\ mainPc = "aborted"
    /\ ghost.refreshFailed
    /\ ghost.restarts = 1
    /\ \E i \in Items : store[i].tag = "Some"

\* C14: the two-phase start.  The steps main has taken are a prefix of the
\* order init, new_worker, set_sender, refresh, spawn_worker, spawn_api,
\* spawn_proxy; the service has no sender until set_sender and has one from
\* then on; whenever refresh has been attempted or a task (the worker, the
\* API or the proxy listener, where work is accepted) runs, a sender is
\* attached.
C14_TwoPhaseInit ==
    /\ Len(ghost.steps) <= Len(MainOrder)
    /\ \A k \in 1..Len(ghost.steps) : ghost.steps[k] = MainOrder[k]
    /\ sender <=> (Len(ghost.steps) >= 3)
    /\ RefreshAttempts >= 1 => sender
    /\ tasks # {} => sender

\* C14's case: all of main has run, on a second start of the process
C14_Witness ==
    /\ ghost.steps = MainOrder
    /\ ghost.restarts = 1
    /\ sender
    /\ tasks = {"worker", "api", "proxy"}

====
